---- MODULE Spec2Model ----
(***************************************************************************)
(* Model of the NotebookComplete order form (src/src/App.tsx).             *)
(*                                                                         *)
(* Text is a sequence of one-character strings.  The fixed literals of the *)
(* order message are kept as single multi-character tokens, except where   *)
(* they hold URL-reserved characters, which are spelled out.  The emoji    *)
(* that open the message labels are left out of the label tokens and the   *)
(* rupee glyph is written "Rs", the em dash "--" (one token each).         *)
(* JavaScript null is the empty sequence for form.file and quote, and the  *)
(* token Null in the errors mapping.                                       *)
(***************************************************************************)
EXTENDS Integers, Sequences, FiniteSets, TLC

VARIABLES form, quote, errors, isSubmitting, estimatedPrice,
          effectPending, timers, opened, lastOp, events

vars == <<form, quote, errors, isSubmitting, estimatedPrice,
          effectPending, timers, opened, lastOp, events>>

(* the number of user events of one session of the page *)
MaxEvents == 5

----------------------------------------------------------------------------
(* Constants *)

PlanSingle == "Single (Rs199)"
Plan3 == "3-Month (Rs499)"
Plan6 == "6-Month (Rs999)"
Plan12 == "12-Month (Rs1999)"

PlanKeys == {PlanSingle, Plan3, Plan6, Plan12}

PLAN_PRICES ==
  [k \in PlanKeys |->
     CASE k = PlanSingle -> 199
       [] k = Plan3 -> 499
       [] k = Plan6 -> 999
       [] k = Plan12 -> 1999]

PRICING_PLANS == <<PlanSingle, Plan3, Plan6, Plan12>>

Null == "null"

NameRequired == "Name is required."
PhoneInvalid == "Enter a valid 10-digit phone."
PagesInvalid == "Pages must be at least 1."

----------------------------------------------------------------------------
(* JavaScript text and number helpers *)

Digit == {"0", "1", "2", "3", "4", "5", "6", "7", "8", "9"}

WhiteSpace == {" ", "\t", "\n"}

DigitVal(c) ==
  CASE c = "0" -> 0 [] c = "1" -> 1 [] c = "2" -> 2 [] c = "3" -> 3
    [] c = "4" -> 4 [] c = "5" -> 5 [] c = "6" -> 6 [] c = "7" -> 7
    [] c = "8" -> 8 [] c = "9" -> 9

DigitChar(d) ==
  CASE d = 0 -> "0" [] d = 1 -> "1" [] d = 2 -> "2" [] d = 3 -> "3"
    [] d = 4 -> "4" [] d = 5 -> "5" [] d = 6 -> "6" [] d = 7 -> "7"
    [] d = 8 -> "8" [] d = 9 -> "9"

RECURSIVE TrimStart(_)
TrimStart(s) ==
  IF s # <<>> /\ Head(s) \in WhiteSpace THEN TrimStart(Tail(s)) ELSE s

RECURSIVE TrimEnd(_)
TrimEnd(s) ==
  IF s # <<>> /\ s[Len(s)] \in WhiteSpace
    THEN TrimEnd(SubSeq(s, 1, Len(s) - 1))
    ELSE s

(* String.prototype.trim *)
Trim(s) == TrimEnd(TrimStart(s))

AllDigits(s) == \A i \in 1..Len(s) : s[i] \in Digit

RECURSIVE DecVal(_)
DecVal(s) ==
  IF s = <<>> THEN 0 ELSE 10 * DecVal(SubSeq(s, 1, Len(s) - 1)) + DigitVal(s[Len(s)])

RECURSIVE NatToStr(_)
NatToStr(n) ==
  IF n < 10 THEN <<DigitChar(n)>> ELSE NatToStr(n \div 10) \o <<DigitChar(n % 10)>>

(* JavaScript numbers: the integers and the three non-finite values. *)
Fin(n) == [kind |-> "finite", val |-> n]
NaN == [kind |-> "NaN", val |-> 0]
PosInf == [kind |-> "Infinity", val |-> 0]
NegInf == [kind |-> "-Infinity", val |-> 0]

InfinityText == <<"I", "n", "f", "i", "n", "i", "t", "y">>

(* Number(text) for a non-empty text: surrounding white space is dropped,  *)
(* the empty rest is 0, a signed decimal integer is its value, the         *)
(* spellings of the infinities are the infinities, anything else is NaN.   *)
StringToNumber(s) ==
  LET t == Trim(s)
      signed == t # <<>> /\ Head(t) \in {"+", "-"}
      body == IF signed THEN Tail(t) ELSE t
      neg == signed /\ Head(t) = "-"
  IN  IF t = <<>> THEN Fin(0)
      ELSE IF body = InfinityText THEN (IF neg THEN NegInf ELSE PosInf)
      ELSE IF body # <<>> /\ AllDigits(body)
        THEN Fin(IF neg THEN 0 - DecVal(body) ELSE DecVal(body))
      ELSE NaN

(* Number(target.value || 0): the empty text is falsy, so 0 is converted. *)
PagesFromInput(value) ==
  IF value = <<>> THEN Fin(0) ELSE StringToNumber(value)

NumberIsNaN(x) == x.kind = "NaN"

(* x < n for an integer n: false for NaN and +Infinity, true for -Infinity *)
NumberLess(x, n) ==
  CASE x.kind = "finite" -> x.val < n
    [] x.kind = "-Infinity" -> TRUE
    [] OTHER -> FALSE

(* template-literal conversion of a number *)
NumberToString(x) ==
  CASE x.kind = "finite" ->
         (IF x.val < 0 THEN <<"-">> \o NatToStr(0 - x.val) ELSE NatToStr(x.val))
    [] x.kind = "NaN" -> <<"N", "a", "N">>
    [] x.kind = "Infinity" -> InfinityText
    [] x.kind = "-Infinity" -> <<"-">> \o InfinityText

(* the markup cut off instead of rounded *)
RoundMarkupFloor(basePrice) == (basePrice * 12) \div 10

(* Math.round(basePrice * 1.2) on an integer price: the nearest integer,   *)
(* a tie going up.                                                         *)
RoundMarkup(basePrice) == (basePrice * 12 + 5) \div 10

----------------------------------------------------------------------------
(* Component state *)

InitialForm ==
  [name |-> <<>>, phone |-> <<>>, college |-> <<>>, className |-> <<>>,
   subject |-> <<>>, pages |-> Fin(1), file |-> <<>>, notes |-> <<>>,
   address |-> <<>>, plan |-> PlanSingle, withDiagrams |-> FALSE]

(* useMemo body *)
computeQuote(plan, withDiagrams) ==
  LET basePrice == IF plan \in DOMAIN PLAN_PRICES THEN PLAN_PRICES[plan] ELSE 199
  IN  IF withDiagrams THEN RoundMarkup(basePrice) ELSE basePrice

EmptyErrors == [k \in {} |-> Null]

(* { ...prev, [name]: value } *)
Spread(prev, name, value) ==
  [k \in DOMAIN prev \cup {name} |-> IF k = name THEN value ELSE prev[k]]

(* the pattern without its end anchor *)
TenDigitsUnanchored(s) == Len(s) >= 10 /\ AllDigits(SubSeq(s, 1, 10))

(* /^\d{10}$/.test(s) *)
TenDigits(s) == Len(s) = 10 /\ AllDigits(s)

validateForm(f) ==
  LET nameBad == Trim(f.name) = <<>>
      phoneBad == ~TenDigits(Trim(f.phone))
      pagesBad == NumberIsNaN(f.pages) \/ NumberLess(f.pages, 1)
      keys == (IF nameBad THEN {"name"} ELSE {})
                \cup (IF phoneBad THEN {"phone"} ELSE {})
                \cup (IF pagesBad THEN {"pages"} ELSE {})
  IN  [k \in keys |->
         CASE k = "name" -> NameRequired
           [] k = "phone" -> PhoneInvalid
           [] k = "pages" -> PagesInvalid]

----------------------------------------------------------------------------
(* Order message and deep link (handleSubmit, lines 193-206) *)

NL == <<"%", "0", "A">>

EmDash == "--"

(* the value without its placeholder *)
OrDashOmitted(s) == s

(* value || "-" : the empty text is falsy *)
OrDash(s) == IF s = <<>> THEN <<EmDash>> ELSE s

TitleLabel == "*NotebookComplete Order*"
NameLabel == "Name: "
PhoneLabel == "Phone: "
AddressLabel == " Address: "
CollegeLabel == " College: "
ClassLabel == "Class: "
SubjectLabel == "Subject: "
PagesLabel == "Pages: "
DiagramsLabel == "Diagrams/Printouts: "
PlanLabel == "Plan: "
NotesLabel == "Notes: "
PriceLabel == "Estimated Price: Rs"
FileLabel == "File: "
FileNoneLabel == "File: None selected. *Please upload your syllabus/content in our chat.*"
FileTail == ". *Please upload this file in our chat after sending this message.*"
ClosingLabel == "Please confirm availability and final quote."

DiagramsYes == <<"YES (", "+", "2", "0", "%", " ", "markup included)">>
DiagramsNo == <<"NO (Base price)">>

diagramsMsg(f) == IF f.withDiagrams THEN DiagramsYes ELSE DiagramsNo

fileMsg(f) ==
  IF f.file # <<>>
    THEN <<FileLabel>> \o f.file[1] \o <<FileTail>>
    ELSE <<FileNoneLabel>>

RECURSIVE Join(_, _)
Join(lines, sep) ==
  IF Len(lines) = 0 THEN <<>>
  ELSE IF Len(lines) = 1 THEN lines[1]
  ELSE lines[1] \o sep \o Join(Tail(lines), sep)

(* the segments of the template literal between the %0A separators *)
MsgLines(f, price) ==
  << <<TitleLabel>>,
     <<>>,
     <<NameLabel>> \o f.name,
     <<PhoneLabel>> \o f.phone,
     <<AddressLabel>> \o OrDash(f.address),
     <<CollegeLabel>> \o OrDash(f.college),
     <<ClassLabel>> \o OrDash(f.className),
     <<SubjectLabel>> \o OrDash(f.subject),
     <<PagesLabel>> \o NumberToString(f.pages),
     <<DiagramsLabel>> \o diagramsMsg(f),
     <<PlanLabel, f.plan>>,
     <<NotesLabel>> \o OrDash(f.notes),
     <<PriceLabel>> \o NatToStr(price),
     <<>>,
     fileMsg(f),
     <<>>,
     <<ClosingLabel>> >>

buildMsg(f, price) == Join(MsgLines(f, price), NL)

UrlPrefix == <<"https://wa.me/911234567890", "?", "t", "e", "x", "t", "=">>

whatsappUrl(f, price) == UrlPrefix \o buildMsg(f, price)

----------------------------------------------------------------------------
(* the effect declared without its dependency: it runs after the first    *)
(* render only                                                            *)
RenderNoDeps(newForm) ==
  /\ estimatedPrice' = computeQuote(newForm.plan, newForm.withDiagrams)
  /\ effectPending' = effectPending

(* Rendering.  After a state update the component renders again: useMemo   *)
(* recomputes estimatedPrice from form.plan and form.withDiagrams, and the *)
(* effect that copies it into quote is scheduled when its dependency       *)
(* changed.  React runs a scheduled effect before it handles the next      *)
(* event, so every handler waits for effectPending to clear.               *)

Render(newForm) ==
  /\ estimatedPrice' = computeQuote(newForm.plan, newForm.withDiagrams)
  /\ effectPending' = (effectPending \/ estimatedPrice' # estimatedPrice)

Ready == ~effectPending

(* one more user event of the session *)
UserEvent == events < MaxEvents /\ events' = events + 1

(* useEffect(() => setQuote(estimatedPrice), [estimatedPrice]) *)
RunEffect ==
  /\ effectPending
  /\ quote' = <<estimatedPrice>>
  /\ effectPending' = FALSE
  /\ UNCHANGED <<form, errors, isSubmitting, estimatedPrice, timers, opened, lastOp, events>>

Init ==
  /\ form = InitialForm
  /\ quote = <<>>
  /\ errors = EmptyErrors
  /\ isSubmitting = FALSE
  /\ estimatedPrice = computeQuote(InitialForm.plan, InitialForm.withDiagrams)
  /\ effectPending = TRUE
  /\ timers = 0
  /\ opened = <<>>
  /\ lastOp = "mount"
  /\ events = 0

----------------------------------------------------------------------------
(* Event handlers *)

TextFields == {"name", "phone", "college", "className", "subject", "notes", "address"}

(* the update that loses the diagrams flag *)
CommonUpdateResetToggle(s, name, value) ==
  [s EXCEPT ![name] = value, !.withDiagrams = FALSE]

(* setForm(s => ({ ...s, [name]: value })) *)
CommonUpdate(s, name, value) == [s EXCEPT ![name] = value]

(* handleChange for a text input, the text area and the plan select *)
HandleChangeText(name, value) ==
  /\ Ready
  /\ UserEvent
  /\ errors' = Spread(errors, name, Null)
  /\ form' = CommonUpdate(form, name, value)
  /\ Render(form')
  /\ opened' = <<>>
  /\ lastOp' = name
  /\ UNCHANGED <<quote, isSubmitting, timers>>

(* handleChange for the pages input *)
HandleChangePages(value) ==
  /\ Ready
  /\ UserEvent
  /\ errors' = Spread(errors, "pages", Null)
  /\ form' = [form EXCEPT !.pages = PagesFromInput(value)]
  /\ Render(form')
  /\ opened' = <<>>
  /\ lastOp' = "pages"
  /\ UNCHANGED <<quote, isSubmitting, timers>>

(* handleChange for the file input; files is the FileList as file names *)
HandleChangeFile(files) ==
  /\ Ready
  /\ UserEvent
  /\ errors' = Spread(errors, "file", Null)
  /\ form' = [form EXCEPT !.file = IF files # <<>> THEN <<files[1]>> ELSE <<>>]
  /\ Render(form')
  /\ opened' = <<>>
  /\ lastOp' = "file"
  /\ UNCHANGED <<quote, isSubmitting, timers>>

HandleDiagramToggle(checked) ==
  /\ Ready
  /\ UserEvent
  /\ form' = [form EXCEPT !.withDiagrams = checked]
  /\ Render(form')
  /\ opened' = <<>>
  /\ lastOp' = "toggle"
  /\ UNCHANGED <<quote, errors, isSubmitting, timers>>

(* PricingCard onClick *)
SelectPlanCard(i) ==
  /\ Ready
  /\ UserEvent
  /\ form' = [form EXCEPT !.plan = PRICING_PLANS[i]]
  /\ Render(form')
  /\ opened' = <<>>
  /\ lastOp' = "card"
  /\ UNCHANGED <<quote, errors, isSubmitting, timers>>

(* the submit button never disabled *)
SubmitAlwaysEnabled == TRUE

(* the submit button is rendered disabled while isSubmitting *)
SubmitEnabled == ~isSubmitting

(* handleSubmit when validateForm() returns false *)
SubmitBlocked ==
  /\ errors' = validateForm(form)
  /\ opened' = <<>>
  /\ lastOp' = "submitBlocked"
  /\ UNCHANGED <<form, quote, isSubmitting, estimatedPrice, effectPending, timers>>

(* handleSubmit when validateForm() returns true *)
SubmitAccepted ==
  /\ errors' = validateForm(form)
  /\ isSubmitting' = TRUE
  /\ opened' = <<whatsappUrl(form, estimatedPrice)>>
  /\ timers' = timers + 1
  /\ lastOp' = "submitAccepted"
  /\ UNCHANGED <<form, quote, estimatedPrice, effectPending>>

(* handleSubmit without the early return *)
HandleSubmitNoReturn ==
  /\ Ready
  /\ UserEvent
  /\ SubmitEnabled
  /\ SubmitAccepted

HandleSubmit ==
  /\ Ready
  /\ UserEvent
  /\ SubmitEnabled
  /\ IF DOMAIN validateForm(form) # {} THEN SubmitBlocked ELSE SubmitAccepted

(* the timer callback that leaves the form submitting *)
TimerFireStuck ==
  /\ Ready
  /\ timers > 0
  /\ timers' = timers - 1
  /\ isSubmitting' = TRUE
  /\ opened' = <<>>
  /\ lastOp' = "timer"
  /\ UNCHANGED <<form, quote, errors, estimatedPrice, effectPending, events>>

(* setTimeout(() => setIsSubmitting(false), 1000) *)
TimerFire ==
  /\ Ready
  /\ timers > 0
  /\ timers' = timers - 1
  /\ isSubmitting' = FALSE
  /\ opened' = <<>>
  /\ lastOp' = "timer"
  /\ UNCHANGED <<form, quote, errors, estimatedPrice, effectPending, events>>

----------------------------------------------------------------------------
(* Inputs *)

MaxPages == 2
MaxText == 1

SamplePhone == <<"9", "8", "7", "6", "5", "4", "3", "2", "1", "0">>

(* every text over the alphabet of at most n characters *)
Texts(alphabet, n) == UNION {[1..k -> alphabet] : k \in 0..n}

NameInputs == Texts({"A"}, MaxText)
PhoneInputs == {SubSeq(SamplePhone, 1, 9), SamplePhone}
PagesInputs == {<<>>} \cup {NatToStr(n) : n \in 0..MaxPages}
FileInputs == {<<>>, <<<<"f">>>>}

Next ==
  \/ RunEffect
  \/ \E v \in NameInputs : HandleChangeText("name", v)
  \/ \E v \in PhoneInputs : HandleChangeText("phone", v)
  \/ \E k \in DOMAIN PLAN_PRICES : HandleChangeText("plan", k)
  \/ \E v \in PagesInputs : HandleChangePages(v)
  \/ \E files \in FileInputs : HandleChangeFile(files)
  \/ \E checked \in BOOLEAN : HandleDiagramToggle(checked)
  \/ \E i \in 1..Len(PRICING_PLANS) : SelectPlanCard(i)
  \/ HandleSubmit
  \/ TimerFire

Spec == Init /\ [][Next]_vars

(* Validation inputs: names and phones with white space, separators and    *)
(* a country code, page counts that are empty, negative or not numbers.    *)
MaxPhoneLen == 11

DigitRun(n) == [i \in 1..n |-> SamplePhone[((i - 1) % 10) + 1]]

NameValues == {<<>>, <<" ">>, <<"A">>, <<" ", "A", " ">>}

PhoneValues ==
  {DigitRun(n) : n \in 9..MaxPhoneLen}
    \cup {<<>>,
          <<" ">> \o SamplePhone \o <<" ">>,
          SubSeq(SamplePhone, 1, 5) \o <<"-">> \o SubSeq(SamplePhone, 6, 10),
          SubSeq(SamplePhone, 1, 5) \o <<" ">> \o SubSeq(SamplePhone, 6, 9),
          <<"+", "9", "1">> \o SamplePhone,
          SubSeq(SamplePhone, 1, 9) \o <<"a">>}

PagesValues ==
  PagesInputs
    \cup {<<"-", "1">>, <<" ">>, <<"a">>, InfinityText, <<"-">> \o InfinityText}

NextValidate ==
  \/ RunEffect
  \/ \E v \in NameValues : HandleChangeText("name", v)
  \/ \E v \in PhoneValues : HandleChangeText("phone", v)
  \/ \E v \in PagesValues : HandleChangePages(v)
  \/ HandleSubmit
  \/ TimerFire

SpecValidate == Init /\ [][NextValidate]_vars

(* The order form with every field edited. *)
OptionalFields == {"college", "className", "subject", "notes", "address"}

NextOrder ==
  \/ RunEffect
  \/ \E v \in {<<"A">>, <<"&">>} : HandleChangeText("name", v)
  \/ HandleChangeText("phone", SamplePhone)
  \/ \E name \in OptionalFields : \E v \in Texts({"x"}, MaxText) : HandleChangeText(name, v)
  \/ HandleChangePages(NatToStr(MaxPages))
  \/ \E files \in FileInputs : HandleChangeFile(files)
  \/ \E checked \in BOOLEAN : HandleDiagramToggle(checked)
  \/ \E i \in 1..Len(PRICING_PLANS) : SelectPlanCard(i)
  \/ HandleSubmit
  \/ TimerFire

SpecOrder == Init /\ [][NextOrder]_vars

(* The event loop runs a scheduled effect and a timer that is due. *)
FairSpec == Spec /\ WF_vars(RunEffect) /\ SF_vars(TimerFire)

----------------------------------------------------------------------------
(* Reading a deep link back *)

SubmitOps == {"submitBlocked", "submitAccepted"}

(* a step in which a handler ran for a user event *)
Handled == events' # events

HexDigit == Digit \cup {"A", "B", "C", "D", "E", "F", "a", "b", "c", "d", "e", "f"}

(* the character a percent escape stands for: the line feed, or the byte *)
(* written out for any other escape                                      *)
EscapedChar(h1, h2) == IF h1 = "0" /\ h2 \in {"A", "a"} THEN "\n" ELSE "%" \o h1 \o h2

RECURSIVE PercentDecode(_)
PercentDecode(s) ==
  IF s = <<>> THEN <<>>
  ELSE IF s[1] = "%" /\ Len(s) >= 3 /\ s[2] \in HexDigit /\ s[3] \in HexDigit
    THEN <<EscapedChar(s[2], s[3])>> \o PercentDecode(SubSeq(s, 4, Len(s)))
  ELSE <<s[1]>> \o PercentDecode(Tail(s))

RECURSIVE UpTo(_, _)
UpTo(s, stops) ==
  IF s = <<>> \/ Head(s) \in stops THEN <<>> ELSE <<Head(s)>> \o UpTo(Tail(s), stops)

(* the value of the text parameter: it ends at the next parameter or at *)
(* the fragment                                                         *)
TextParam(url) == UpTo(SubSeq(url, Len(UrlPrefix) + 1, Len(url)), {"&", "#"})

(* the message as text, one line feed between two lines *)
PlainMessage(f, price) == Join(MsgLines(f, price), <<"\n">>)

RECURSIVE SplitLines(_)
SplitLines(s) ==
  IF \E i \in 1..(Len(s) - 2) : SubSeq(s, i, i + 2) = NL
    THEN LET i == CHOOSE k \in 1..(Len(s) - 2) :
                    /\ SubSeq(s, k, k + 2) = NL
                    /\ \A j \in 1..(k - 1) : SubSeq(s, j, j + 2) # NL
         IN  <<SubSeq(s, 1, i - 1)>> \o SplitLines(SubSeq(s, i + 3, Len(s)))
    ELSE <<s>>

(* the lines of the message of the link opened last *)
OpenedLines == SplitLines(SubSeq(opened[1], Len(UrlPrefix) + 1, Len(opened[1])))

(* the price written after the price label of the link opened last *)
OpenedPrice ==
  LET url == opened[1]
      i == CHOOSE k \in 1..Len(url) : url[k] = PriceLabel
  IN  DecVal(UpTo(SubSeq(url, i + 1, Len(url)), {"%"}))

BasePrice(plan) ==
  CASE plan = PlanSingle -> 199
    [] plan = Plan3 -> 499
    [] plan = Plan6 -> 999
    [] plan = Plan12 -> 1999

MarkedUp(plan) ==
  CASE plan = PlanSingle -> 239
    [] plan = Plan3 -> 599
    [] plan = Plan6 -> 1199
    [] plan = Plan12 -> 2399

Blank(s) == \A i \in 1..Len(s) : s[i] \in WhiteSpace

(* s is ten decimal digits between leading and trailing white space *)
TenDigitPhone(s) ==
  \E a \in 1..Len(s) :
    /\ a + 9 <= Len(s)
    /\ \A i \in a..(a + 9) : s[i] \in Digit
    /\ \A i \in 1..(a - 1) : s[i] \in WhiteSpace
    /\ \A i \in (a + 10)..Len(s) : s[i] \in WhiteSpace

----------------------------------------------------------------------------
(* Claims *)

(* C1: for each of the four plans the computed quote is the base price    *)
(* (199, 499, 999, 1999) without diagrams, and with diagrams the integer  *)
(* nearest to 1.2 times the base price: 239, 599, 1199, 2399.  The quote  *)
(* shown is that value once the effect has run.                           *)
C1_QuoteTable ==
  LET expected == IF form.withDiagrams THEN MarkedUp(form.plan) ELSE BasePrice(form.plan)
  IN  /\ estimatedPrice = expected
      /\ form.withDiagrams =>
           /\ 10 * estimatedPrice > 12 * BasePrice(form.plan) - 5
           /\ 10 * estimatedPrice <= 12 * BasePrice(form.plan) + 5
      /\ Ready => quote = <<expected>>

C1_Witness ==
  /\ form.plan = Plan12
  /\ form.withDiagrams
  /\ quote = <<2399>>

(* C2: percent-decoding the text parameter of the deep link that was      *)
(* opened gives back the message text exactly, whatever the form holds.   *)
C2_RoundTrip ==
  lastOp = "submitAccepted" =>
    PercentDecode(TextParam(opened[1])) = PlainMessage(form, estimatedPrice)

(* C3: after a submit attempt the pages error is reported whenever the    *)
(* pages value is not a finite number or is less than 1.                  *)
C3_PagesError ==
  (lastOp \in SubmitOps /\ (form.pages.kind # "finite" \/ form.pages.val < 1)) =>
    ("pages" \in DOMAIN errors /\ errors["pages"] = PagesInvalid)

(* C4: after a submit attempt the phone error is reported exactly when    *)
(* the phone without its surrounding white space is not ten decimal       *)
(* digits, the name error exactly when the name is all white space, and   *)
(* the mapping holds a key only for a field that failed, with its message *)
C4_PhoneAndName ==
  lastOp \in SubmitOps =>
    /\ "phone" \in DOMAIN errors <=> ~TenDigitPhone(form.phone)
    /\ "name" \in DOMAIN errors <=> Blank(form.name)
    /\ DOMAIN errors \subseteq {"name", "phone", "pages"}
    /\ "phone" \in DOMAIN errors => errors["phone"] = PhoneInvalid
    /\ "name" \in DOMAIN errors => errors["name"] = NameRequired
    /\ "pages" \in DOMAIN errors =>
         /\ errors["pages"] = PagesInvalid
         /\ (form.pages.kind # "finite" \/ form.pages.val < 1)

C4_Witness ==
  /\ lastOp = "submitBlocked"
  /\ form.phone = DigitRun(11)
  /\ ~Blank(form.name)
  /\ DOMAIN errors = {"phone"}

(* C5: a submit attempt whose validation reports a failure opens no link, *)
(* leaves the form not submitting, starts no timer and keeps the form     *)
(* values; only the errors mapping is updated.                            *)
C5_BlockedSubmit ==
  [][(Handled /\ lastOp' \in SubmitOps /\ DOMAIN errors' # {}) =>
       /\ opened' = <<>>
       /\ ~isSubmitting'
       /\ isSubmitting' = isSubmitting
       /\ timers' = timers
       /\ form' = form
       /\ quote' = quote]_vars

C5_Witness ==
  /\ lastOp = "submitBlocked"
  /\ DOMAIN errors = {"phone", "pages"}
  /\ ~isSubmitting
  /\ timers = 0

(* C6: the message of an opened link has its seventeen segments in the    *)
(* fixed order, separated by %0A: title, name, phone, address, college,   *)
(* class, subject, pages, diagrams, plan, notes, quote, file, closing;    *)
(* an empty optional field is written as the dash.                        *)
C6_MessageLines ==
  lastOp = "submitAccepted" =>
    LET L == OpenedLines
        opt(label, v) == IF v = <<>> THEN <<label, EmDash>> ELSE <<label>> \o v
    IN  /\ Len(L) = 17
        /\ L[1] = <<TitleLabel>>
        /\ L[2] = <<>>
        /\ L[3] = <<NameLabel>> \o form.name
        /\ L[4] = <<PhoneLabel>> \o form.phone
        /\ L[5] = opt(AddressLabel, form.address)
        /\ L[6] = opt(CollegeLabel, form.college)
        /\ L[7] = opt(ClassLabel, form.className)
        /\ L[8] = opt(SubjectLabel, form.subject)
        /\ Head(L[9]) = PagesLabel
        /\ Head(L[10]) = DiagramsLabel
        /\ L[11] = <<PlanLabel, form.plan>>
        /\ L[12] = opt(NotesLabel, form.notes)
        /\ Head(L[13]) = PriceLabel
        /\ L[14] = <<>>
        /\ Head(L[15]) \in {FileLabel, FileNoneLabel}
        /\ L[16] = <<>>
        /\ L[17] = <<ClosingLabel>>

C6_Witness ==
  /\ lastOp = "submitAccepted"
  /\ \A name \in OptionalFields : form[name] = <<>>
  /\ OpenedLines[12] = <<NotesLabel, EmDash>>

(* C7: an edit of name, phone, college, className, subject, pages, file,  *)
(* notes or address, and a submit attempt, leave the computed price and   *)
(* the quote shown unchanged.                                             *)
C7_QuoteFrame ==
  [][(Handled /\ lastOp' \in (TextFields \cup {"pages", "file"} \cup SubmitOps)) =>
       /\ estimatedPrice' = estimatedPrice
       /\ quote' = quote]_vars

C7_Witness ==
  /\ lastOp = "notes"
  /\ form.notes # <<>>
  /\ form.plan = Plan6
  /\ form.withDiagrams
  /\ quote = <<1199>>

(* C8: a submit that passes validation marks the form submitting and      *)
(* opens the deep link once, and the form is re-enabled afterwards by the *)
(* timer alone.                                                           *)
C8_SubmitThenReenable ==
  /\ [][(Handled /\ lastOp' \in SubmitOps /\ DOMAIN errors' = {}) =>
          /\ isSubmitting'
          /\ Len(opened') = 1
          /\ opened'[1] = whatsappUrl(form, estimatedPrice)
          /\ timers' = timers + 1]_vars
  /\ (isSubmitting ~> ~isSubmitting)

C8_Witness ==
  /\ lastOp = "timer"
  /\ ~isSubmitting
  /\ timers = 0
  /\ errors = EmptyErrors

(* C9: no link is opened while the form is submitting, and at most one    *)
(* re-enable timer is pending.                                            *)
C9_NoDuplicate ==
  /\ [][(Handled /\ opened' # <<>>) => ~isSubmitting]_vars
  /\ [](timers <= 1)
  /\ [](isSubmitting => timers = 1)

C9_Witness ==
  /\ isSubmitting
  /\ timers = 1
  /\ lastOp \in TextFields
  /\ opened = <<>>

====
